---- MODULE Spec2Model ----
(***************************************************************************)
(* lfas: a field-structured full-text search engine.  This module models   *)
(* the tokenizer, the posting lists, the two storage backends (in-memory   *)
(* map and the LMDB backend with its write buffer), the inverted index,    *)
(* the field metadata and the Python binding's indexing operations.        *)
(***************************************************************************)
EXTENDS Integers, Sequences, FiniteSets, TLC

(***************************************************************************)
(* Characters and strings.  A text is a sequence of characters, each a     *)
(* one-character string; Str turns a sequence of characters into a string. *)
(***************************************************************************)
Digits == <<"0", "1", "2", "3", "4", "5", "6", "7", "8", "9">>

LowerChars == <<"a", "b", "c", "d", "e", "f", "g", "h", "i", "j", "k", "l", "m",
                "n", "o", "p", "q", "r", "s", "t", "u", "v", "w", "x", "y", "z">>

UpperChars == <<"A", "B", "C", "D", "E", "F", "G", "H", "I", "J", "K", "L", "M",
                "N", "O", "P", "Q", "R", "S", "T", "U", "V", "W", "X", "Y", "Z">>

\* Byte order of the characters that can occur in a storage key.
KeyAlphabet == <<" ", "-", "/">> \o Digits \o <<":">> \o LowerChars

Range(s) == {s[i] : i \in 1..Len(s)}

IsDigit(c) == c \in Range(Digits)

IsLower(c) == c \in Range(LowerChars)

\* [a-z] under the case-insensitive flag
IsAlpha(c) == c \in Range(LowerChars) \/ c \in Range(UpperChars)

IndexOf(s, c) == CHOOSE i \in 1..Len(s) : s[i] = c

RECURSIVE Str(_)
Str(s) == IF s = <<>> THEN "" ELSE Head(s) \o Str(Tail(s))

\* char::to_lowercase for the characters of the model
ToLower(c) ==
    IF c \in Range(UpperChars) THEN LowerChars[IndexOf(UpperChars, c)]
    ELSE IF c = "Á" THEN "á"
    ELSE IF c = "É" THEN "é"
    ELSE c

\* NFD decomposition followed by the removal of combining marks
StripMarks(c) ==
    IF c = "á" THEN "a"
    ELSE IF c = "Á" THEN "A"
    ELSE IF c = "é" THEN "e"
    ELSE IF c = "É" THEN "E"
    ELSE c

MapChars(Op(_), s) == [i \in 1..Len(s) |-> Op(s[i])]

\* s[from..to] as a sequence
Slice(s, from, to) == [i \in 1..(to - from + 1) |-> s[from + i - 1]]

\* str::contains
ContainsSub(s, sub) ==
    \E i \in 1..(Len(s) - Len(sub) + 1) : Slice(s, i, i + Len(sub) - 1) = sub

(***************************************************************************)
(* Tokenizer (src/src/tokenizer.rs)                                        *)
(***************************************************************************)
FEDERATIVE_UNITS == {"PA", "MA", "PI", "AL", "RS", "GO"}

HIGHWAY_PREFIX == {"km", "br"}

CUSTOM_STOPWORDS ==
    {"de", "da", "do", "das", "dos", "em", "na", "no", "nas", "nos", "as",
     "os", "um", "uma", "uns", "umas", "pelo", "pela", "por", "para", "com",
     "sem", "sobre", "entre", "ate", "desde"}

ADDRESS_TYPE ==
   {
    "travessa", "rua", "beco", "avenida", "ramal", "rodovia", "passagem",
    "alameda", "vila", "estrada", "igarape", "aglomerado", "folha", "ponte",
    "ruela", "vicinal", "travessao", "assentamento", "quadra", "rio",
    "comunidade", "acesso", "praca", "condominio", "vilarejo", "via",
    "residencial", "aldeia", "sitio", "caminho", "furo", "beirada",
    "chacara", "grota", "passarela", "loteamento", "fazenda", "planalto",
    "linha", "divisa", "ilha", "quilometro", "povoado", "agrovila",
    "conjunto", "outros", "propriedade", "colonia", "lago", "canal",
    "trilha", "costa", "perimetro", "regiao", "retiro", "marginal",
    "entrada", "trevo", "quilombo", "afluente", "eixo", "praia", "baixa",
    "margens", "viela", "invasao", "porto", "aeroporto", "baia", "contorno",
    "terra", "baixadao", "margem", "nucleo", "paralela", "descida",
    "arraial", "alto", "setor", "beira", "area", "buraco", "corrego",
    "bairro", "varzea", "desvio", "cabeceira", "campo", "prolongamento",
    "parque", "vale", "transversal", "trecho", "areal", "barra", "estancia",
    "corredor", "lagoa", "jardim", "gleba", "cruzamento", "perimetral",
    "reta", "boulevard", "arteria", "lugarejo", "travessia", "sede",
    "variante", "centro", "colina", "maloca", "atalho", "rancho", "volta",
    "enseada", "3a travessa da rua", "extensao", "lote", "limite",
    "1a travessa da rua", "terreno", "zona", "largo", "vereda", "esquina",
    "circular", "rampa", "ladeira", "2a travessa da rua",
    "5a travessa da rua", "4a travessa da rua", "ponta", "garimpo", "riacho",
    "granja", "balneario", "acampamento", "serra", "bloco", "baixada",
    "estadio", "rotatoria", "alagado", "trilho", "seringal", "cerca",
    "baixo", "orla", "saida", "tapera", "continuacao", "seta", "adro",
    "barragem", "cachoeirinha", "fonte", "ribeirao", "estacionamento",
    "mata", "haras", "terrenos", "unidade", "2a travessa", "retorno",
    "riachao", "baixao", "viaduto", "acude", "oca", "trilhos", "galeria",
    "projetada", "lado", "parada", "final", "escadinha", "canteiro",
    "marina", "cohab", "ferrovia", "patio", "vertente", "projeto", "fundos",
    "faixa", "encosta", "entreposto", "terminal", "ligacao", "calcada",
    "gameleira", "entroncamento", "morro", "esplanada", "vala", "aleia",
    "posto", "capoeira", "subida", "feira", "distrito", "pedras", "palafita",
    "bosque", "cais", "1a travessa da avenida", "boqueirao", "edificio",
    "capao", "et", "so", "lt", "pq", "bl", "ps", "ad", "al", "qd", "pr",
    "gr", "av", "tv", "jd", "ac", "as", "ia", "fa", "st", "ld", "pv", "vl",
    "cd", "pa", "bv", "lg", "pj", "dt", "r", "fl", "cl", "pc", "il", "bc",
    "fe", "pt", "mr", "rm", "rd", "vc", "cj"
   }

STOP_WORDS_SET == CUSTOM_STOPWORDS

ADDRESS_TYPE_SET == ADDRESS_TYPE

UFS_SET == FEDERATIVE_UNITS

HIGHWAY_PREFIX_SET == HIGHWAY_PREFIX

\* The Portuguese NLTK list of the stopwords crate; the words of it that the
\* texts of the model can contain.
NLTK_STOPS == {"a", "o", "e", "de", "da", "do", "em", "um", "para", "com", "que"}

\* length of the longest run of characters satisfying Class that starts at i
RECURSIVE RunLen(_, _, _)
RunLen(Class(_), s, i) ==
    IF i > Len(s) \/ ~Class(s[i]) THEN 0 ELSE 1 + RunLen(Class, s, i + 1)

\* \d{5}-\d{3} matches at position i
CepAt(s, i) ==
    /\ i + 8 <= Len(s)
    /\ \A j \in 0..4 : IsDigit(s[i + j])
    /\ s[i + 5] = "-"
    /\ \A j \in 6..8 : IsDigit(s[i + j])

\* RE: \d{5}-\d{3}|S/N|\d+|[a-z]+ (case-insensitive): the length of the match
\* that starts at position i, 0 when no alternative matches there.  The
\* alternatives are tried in order.
MatchLenAt(s, i) ==
    IF CepAt(s, i) THEN 9
    ELSE IF i + 2 <= Len(s) /\ ToLower(s[i]) = "s" /\ s[i + 1] = "/"
                            /\ ToLower(s[i + 2]) = "n" THEN 3
    ELSE IF IsDigit(s[i]) THEN RunLen(IsDigit, s, i)
    ELSE IF IsAlpha(s[i]) THEN RunLen(IsAlpha, s, i)
    ELSE 0

\* RE.find_iter: the successive non-overlapping leftmost matches from i on
RECURSIVE find_iter(_, _)
find_iter(s, i) ==
    IF i > Len(s) THEN <<>>
    ELSE LET n == MatchLenAt(s, i)
         IN  IF n = 0 THEN find_iter(s, i + 1)
             ELSE <<Slice(s, i, i + n - 1)>> \o find_iter(s, i + n)

\* RE_CEP: \d{5}-?\d{3}, unanchored
RE_CEP(t) ==
    \E i \in 1..Len(t) :
        \/ CepAt(t, i)
        \/ i + 7 <= Len(t) /\ \A j \in 0..7 : IsDigit(t[i + j])

\* RE_NUMBER: \d+|sn|s/n, unanchored
RE_NUMBER(t) ==
    \/ \E i \in 1..Len(t) : IsDigit(t[i])
    \/ ContainsSub(t, <<"s", "n">>)
    \/ ContainsSub(t, <<"s", "/", "n">>)

\* RE_STREET_NUMBER: ^\d+$
RE_STREET_NUMBER(t) == Len(t) >= 1 /\ \A i \in 1..Len(t) : IsDigit(t[i])

\* RE_SHORT_NUMBER: \d{1,3}, unanchored
RE_SHORT_NUMBER(t) == \E i \in 1..Len(t) : IsDigit(t[i])

\* the non-overlapping n-character slices of each token, from offset 0
extract_weak_tokens(tokens, n) ==
    UNION {{Slice(t, n * k + 1, n * k + n) : k \in 0..((Len(t) \div n) - 1)}
           : t \in {u \in tokens : Len(u) >= n}}

\* lines 313-317: NFD, removal of the combining marks, to_lowercase
normalized(text) == MapChars(ToLower, MapChars(StripMarks, text))

\* lines 319-327: the matches of RE that are no stop words, in order, and
\* "para" appended when the lowercased text contains "pará"
tokens_list(text) ==
    SelectSeq(find_iter(normalized(text), 1),
              LAMBDA t : Str(t) \notin STOP_WORDS_SET /\ Str(t) \notin NLTK_STOPS)
    \o (IF ContainsSub(MapChars(ToLower, text), <<"p", "a", "r", "á">>)
        THEN <<<<"p", "a", "r", "a">>>>
        ELSE <<>>)

\* lines 333-356: the n-grams and the specialized tokens of a token list
distinctive_tokens(tokens) ==
    {tokens[i] \o <<" ">> \o tokens[i + 1] :
        i \in {j \in 1..(Len(tokens) - 1) :
            \/ /\ Str(tokens[j]) \in ADDRESS_TYPE_SET
               /\ RE_STREET_NUMBER(tokens[j + 1])
            \/ /\ Str(tokens[j]) \in HIGHWAY_PREFIX_SET
               /\ RE_SHORT_NUMBER(tokens[j + 1])}}
    \cup {t \in Range(tokens) :
            \/ RE_CEP(t)
            \/ Str(t) \in UFS_SET
            \/ RE_NUMBER(t) /\ Len(t) >= 3}

\* the all set without the copy of the distinctive tokens
all_tokens_without_distinctive(tokens, distinctive) ==
    Range(tokens) \cup extract_weak_tokens(Range(tokens), 3)

\* lines 355-363: every token, the weak tokens of the tokens, the
\* distinctive tokens
all_tokens(tokens, distinctive) ==
    Range(tokens) \cup extract_weak_tokens(Range(tokens), 3) \cup distinctive

TokenSet(tokens, distinctive) ==
    [distinctive |-> distinctive, all |-> all_tokens(tokens, distinctive)]

TokenSetOf(tokens) == TokenSet(tokens, distinctive_tokens(tokens))

tokenize_structured(text) == TokenSetOf(tokens_list(text))

tokenize(text) == tokenize_structured(text).all

(***************************************************************************)
(* Machine integers.  A usize DocId is four 16-bit words and a u32 two,     *)
(* most significant word first, so that the width of each type is kept.    *)
(***************************************************************************)
W16 == 256 * 256

\* the usize with the value n
Usize(n) == <<0, 0, n \div W16, n % W16>>

\* the value of a u32 or usize below 2^31
NatOf(v) == IF Len(v) = 2 THEN v[1] * W16 + v[2] ELSE v[3] * W16 + v[4]

\* doc_id as u32
as_u32(doc_id) == <<doc_id[3], doc_id[4]>>

\* v as usize
as_usize(v) == <<0, 0, v[1], v[2]>>

\* u32 += 1 (wrapping at 2^32)
U32Inc(c) ==
    IF c[2] < W16 - 1 THEN <<c[1], c[2] + 1>>
    ELSE IF c[1] < W16 - 1 THEN <<c[1] + 1, 0>>
    ELSE <<0, 0>>

\* order of two integers of the same width
RECURSIVE WordsLess(_, _)
WordsLess(a, b) ==
    IF a = <<>> THEN FALSE
    ELSE IF Head(a) = Head(b) THEN WordsLess(Tail(a), Tail(b))
    ELSE Head(a) < Head(b)

EmptyMap == [x \in {} |-> 0]

(***************************************************************************)
(* Postings (src/src/postings.rs)                                          *)
(***************************************************************************)
Postings_new == [bitmap |-> {}, frequencies |-> EmptyMap]

\* add_doc with the frequency set to 1 instead of incremented
add_doc_set_one(p, doc_id) ==
    [bitmap |-> p.bitmap \cup {as_u32(doc_id)},
     frequencies |->
        [d \in DOMAIN p.frequencies \cup {doc_id} |->
            IF d = doc_id THEN <<0, 1>> ELSE p.frequencies[d]]]

add_doc(p, doc_id) ==
    [bitmap |-> p.bitmap \cup {as_u32(doc_id)},
     frequencies |->
        [d \in DOMAIN p.frequencies \cup {doc_id} |->
            IF d = doc_id
            THEN U32Inc(IF d \in DOMAIN p.frequencies THEN p.frequencies[d] ELSE <<0, 0>>)
            ELSE p.frequencies[d]]]

\* the name under which the binding calls add_doc
add_occurrence(p, doc_id) == add_doc(p, doc_id)

contains(p, doc_id) == as_u32(doc_id) \in p.bitmap

len(p) == Cardinality(p.bitmap)

\* Option<T>
None == [some |-> FALSE]

Some(v) == [some |-> TRUE, val |-> v]

(***************************************************************************)
(* bincode encoding of a Postings value: the bitmap as its ascending list  *)
(* of values, the frequency map as a list of (doc id, count) entries.      *)
(***************************************************************************)
\* the elements of a set of integers of one width, ascending
RECURSIVE SortedSeq(_)
SortedSeq(S) ==
    IF S = {} THEN <<>>
    ELSE LET m == CHOOSE x \in S : \A y \in S : ~WordsLess(y, x)
         IN  <<m>> \o SortedSeq(S \ {m})

serialize(p) ==
    [bitmap |-> SortedSeq(p.bitmap),
     frequencies |-> LET ks == SortedSeq(DOMAIN p.frequencies)
                     IN  [i \in 1..Len(ks) |-> <<ks[i], p.frequencies[ks[i]]>>]]

deserialize(bytes) ==
    [bitmap |-> Range(bytes.bitmap),
     frequencies |->
        [d \in {e[1] : e \in Range(bytes.frequencies)} |->
            (CHOOSE e \in Range(bytes.frequencies) : e[1] = d)[2]]]

(***************************************************************************)
(* RecordField (src/src/lib.rs) and the key encoding of the LMDB backend   *)
(***************************************************************************)
RecordFieldSeq == <<"Estado", "Municipio", "Bairro", "Cep", "TipoLogradouro",
                    "Rua", "Numero", "Complemento", "Nome">>

RecordField == Range(RecordFieldSeq)

HexDigits == Digits \o <<"a", "b", "c", "d", "e", "f">>

\* bincode of a unit enum variant: its index as a little-endian u32
bincode_field(field) ==
    LET i == IndexOf(RecordFieldSeq, field) - 1
    IN  <<i % 256, (i \div 256) % 256, (i \div 65536) % 256, (i \div 16777216) % 256>>

RECURSIVE HexOf(_)
HexOf(bytes) ==
    IF bytes = <<>> THEN <<>>
    ELSE <<HexDigits[(Head(bytes) \div 16) + 1], HexDigits[(Head(bytes) % 16) + 1]>>
         \o HexOf(Tail(bytes))

encode_key(field, term) == HexOf(bincode_field(field)) \o <<":">> \o term

decode_key(key) ==
    LET colon_pos == CHOOSE i \in 1..Len(key) :
                        key[i] = ":" /\ \A j \in 1..(i - 1) : key[j] # ":"
        field_hex == Slice(key, 1, colon_pos - 1)
        byte(k) == 16 * (IndexOf(HexDigits, field_hex[2 * k - 1]) - 1)
                   + (IndexOf(HexDigits, field_hex[2 * k]) - 1)
        idx == byte(1) + 256 * byte(2) + 65536 * byte(3) + 16777216 * byte(4)
    IN  <<RecordFieldSeq[idx + 1], Slice(key, colon_pos + 1, Len(key))>>

\* String::cmp: byte-wise lexicographic order
RECURSIVE KeyCmpLess(_, _)
KeyCmpLess(a, b) ==
    IF b = <<>> THEN FALSE
    ELSE IF a = <<>> THEN TRUE
    ELSE IF Head(a) = Head(b) THEN KeyCmpLess(Tail(a), Tail(b))
    ELSE IndexOf(KeyAlphabet, Head(a)) < IndexOf(KeyAlphabet, Head(b))

(***************************************************************************)
(* LmdbStorage (src/src/storage/lmdb.rs).  db is the committed content of  *)
(* the LMDB database (key -> value bytes), write_buffer the WriteBuffer.   *)
(***************************************************************************)
\* WriteBuffer::sort: sort_unstable_by on the key; the order of entries with
\* equal keys is unspecified, so every key-sorted permutation is possible.
RECURSIVE SortedOrders(_, _)
SortedOrders(entries, idx) ==
    IF idx = {} THEN {<<>>}
    ELSE UNION {{<<entries[i]>> \o s : s \in SortedOrders(entries, idx \ {i})} :
                  i \in {j \in idx : \A k \in idx :
                                         ~KeyCmpLess(entries[k][1], entries[j][1])}}

WriteBuffer_sort(entries) == SortedOrders(entries, DOMAIN entries)

\* the db.put calls of one write transaction, in order
RECURSIVE WtxnPutAll(_, _)
WtxnPutAll(view, entries) ==
    IF entries = <<>> THEN view
    ELSE LET e == Head(entries)
         IN  WtxnPutAll([k \in DOMAIN view \cup {e[1]} |->
                            IF k = e[1] THEN e[2] ELSE view[k]],
                        Tail(entries))

\* LmdbStorage::flush: every possible outcome [db, buf, res] of a flush of the
\* buffer buf over the committed content dbv
LmdbFlushOutcomes(dbv, buf) ==
    IF buf = <<>> THEN {[db |-> dbv, buf |-> buf, res |-> "Ok"]}
    ELSE UNION {
        { \* the write transaction commits
          [db |-> WtxnPutAll(dbv, s), buf |-> <<>>, res |-> "Ok"],
          \* env.write_txn() fails: the buffer is sorted and kept
          [db |-> dbv, buf |-> s, res |-> "TxnError"],
          \* db.put or commit fails: the drain has emptied the buffer and the
          \* transaction is aborted
          [db |-> dbv, buf |-> <<>>, res |-> "WriteError"] }
        : s \in WriteBuffer_sort(buf)}

\* put flushing only once the buffer is longer than batch_size
LmdbPutOutcomes_flush_above(dbv, buf, bsize, field, term, postings) ==
    LET pushed == Append(buf, <<encode_key(field, term), serialize(postings)>>)
    IN  IF Len(pushed) <= bsize
        THEN {[db |-> dbv, buf |-> pushed, res |-> "Ok"]}
        ELSE LmdbFlushOutcomes(dbv, pushed)

\* LmdbStorage::put: every possible outcome of put(field, term, postings)
LmdbPutOutcomes(dbv, buf, bsize, field, term, postings) ==
    LET pushed == Append(buf, <<encode_key(field, term), serialize(postings)>>)
    IN  IF Len(pushed) < bsize
        THEN {[db |-> dbv, buf |-> pushed, res |-> "Ok"]}
        ELSE LmdbFlushOutcomes(dbv, pushed)

\* LmdbStorage::get_with_txn over the snapshot view of a read transaction
get_with_txn(view, field, term) ==
    LET key == encode_key(field, term)
    IN  IF key \in DOMAIN view THEN Some(deserialize(view[key])) ELSE None

\* LmdbStorage::get (the read transaction is opened on the committed content)
LmdbGet(dbv, field, term) == get_with_txn(dbv, field, term)

\* LmdbStorage::get_batch: all reads under one read transaction
LmdbGetBatch(dbv, queries) ==
    [i \in 1..Len(queries) |-> get_with_txn(dbv, queries[i][1], queries[i][2])]

\* LmdbStorage::contains
LmdbContains(dbv, field, term) == encode_key(field, term) \in DOMAIN dbv

\* LmdbStorage::iter (through scan): the decoded entries of the database
LmdbIter(dbv) == {<<decode_key(k), deserialize(dbv[k])>> : k \in DOMAIN dbv}

(***************************************************************************)
(* InMemoryStorage (src/src/storage/memory.rs): data maps (field, term)    *)
(* to Postings.                                                            *)
(***************************************************************************)
MemGet(datav, field, term) ==
    IF <<field, term>> \in DOMAIN datav THEN Some(datav[<<field, term>>]) ELSE None

MemPut(datav, field, term, postings) ==
    [k \in DOMAIN datav \cup {<<field, term>>} |->
        IF k = <<field, term>> THEN postings ELSE datav[k]]

MemContains(datav, field, term) == <<field, term>> \in DOMAIN datav

(***************************************************************************)
(* Bounds and inputs of the model                                          *)
(***************************************************************************)
\* number of binding calls in a behaviour
MaxOps == 3

\* batch_size of the LMDB backend ranges over 1..MaxBatchSize
MaxBatchSize == 2

\* LmdbStorage::open uses BATCH_SIZE, open_with_batch_size any size
BATCH_SIZE == 100000

BatchSizes == (1..MaxBatchSize) \cup {BATCH_SIZE}

\* batch sizes of the engine's storage: commit on every put, or the default
EngineBatchSizes == {1, BATCH_SIZE}

ModelDocIds == {0, 1}

K_rua == <<"r", "u", "a">>

K_Rua == <<"R", "u", "a">>

K_cep == <<"c", "e", "p">>

K_id == <<"i", "d">>

T_x == <<"x">>

T_xy == <<"x", " ", "y">>

ModelTexts == {T_x, T_xy}

\* texts of the records and queries of the runs with searches
T_bcdfg == <<"b", " ", "c", " ", "d", " ", "f", " ", "g">>

T_xbcdfg == <<"x", " ">> \o T_bcdfg

T_blank == <<" ">>

T_123x == <<"1", "2", "3", " ", "x">>

SearchTexts == {T_x, T_xy, T_bcdfg, T_xbcdfg, T_blank, T_123x}

\* record dictionaries (field name -> text) of the model
ModelRecords ==
    { (K_rua :> T_x),
      (K_rua :> T_x) @@ (K_Rua :> T_xy),
      (K_cep :> T_x) @@ (K_id :> T_xy) }

\* record lists passed to index_batch
ModelBatches ==
    {<<<<d, K_rua :> T_x>>>> : d \in ModelDocIds}
    \cup {<<<<0, K_rua :> T_x>>, <<d, K_rua :> T_xy>>>> : d \in ModelDocIds}

\* tokenize_structured of the texts of the model, computed once
TokenCache == [t \in ModelTexts \cup SearchTexts |-> tokenize_structured(t)]

\* every order in which the elements of a finite set can be iterated
IterOrders(S) ==
    {f \in [1..Cardinality(S) -> S] : \A i, j \in DOMAIN f : f[i] = f[j] => i = j}

\* the elements of a set in one order
RECURSIVE SeqOf(_)
SeqOf(S) ==
    IF S = {} THEN <<>>
    ELSE LET x == CHOOSE y \in S : TRUE IN <<x>> \o SeqOf(S \ {x})

(***************************************************************************)
(* State                                                                   *)
(***************************************************************************)
VARIABLES
    db,            \* LmdbStorage: committed content of the database
    write_buffer,  \* LmdbStorage::write_buffer entries, (key, value bytes)
    batch_size,    \* LmdbStorage::batch_size
    data,          \* InMemoryStorage::data
    metadata,      \* FieldMetadata of the engine
    lock,          \* GLOBAL_ENGINE's RwLock: "ok" or "poisoned"
    last,          \* the last operation and its result
    ingested,      \* history: (doc id, field, term) triples passed to the index
    seen_docs,     \* history: doc ids passed to an indexing call
    calls,         \* history: kinds of indexing calls made so far
    faulted,       \* history: a storage operation has failed
    nops,          \* history: number of operations so far
    backend,       \* storage-level runs: the backend in use, "lmdb" or "memory"
    hist,          \* storage-level runs: the operations so far, with results
    wtxn,          \* the write transaction of a flush in progress
    rtxn,          \* the reader in progress: its read transaction and results
    commits,       \* history: the key set of every committed write batch
    postings_obj,  \* a Postings value under construction
    added,         \* history: the doc ids passed to add_doc, in order
    scorer,        \* BM25FScorer of the engine: k1, field_weights, field_b
    threads,       \* the calls in progress on GLOBAL_ENGINE, one per thread
    twin           \* two engines fed the same records, per record and in batches

lmdbVars == <<db, write_buffer, batch_size>>

histVars == <<ingested, seen_docs, calls, faulted, nops>>

engineVars == <<metadata, lock>>

\* no flush in progress, no reader in progress
NoWtxn == [pc |-> "idle", view |-> EmptyMap, todo |-> <<>>]

NoRtxn == [pc |-> "idle", kind |-> "none", snapshot |-> EmptyMap, version |-> 0,
           todo |-> <<>>, results |-> <<>>]

txnVars == <<wtxn, rtxn, commits>>

postingsVars == <<postings_obj, added>>

searchVars == <<scorer, threads, twin>>

traceVars == <<backend, hist, txnVars, postingsVars, threads, twin>>

vars == <<db, write_buffer, batch_size, data, metadata, lock, last,
          ingested, seen_docs, calls, faulted, nops, backend, hist,
          wtxn, rtxn, commits, postings_obj, added, scorer, threads, twin>>

(***************************************************************************)
(* FieldMetadata (src/src/metadata.rs)                                     *)
(***************************************************************************)
FieldMetadata_new ==
    [lengths |-> EmptyMap, total_field_lengths |-> EmptyMap,
     total_docs |-> 0, term_df |-> EmptyMap]

\* map.get(k).unwrap_or(default)
GetOr(map, k, default) == IF k \in DOMAIN map THEN map[k] ELSE default

\* map.insert(k, v)
Insert(map, k, v) == [x \in DOMAIN map \cup {k} |-> IF x = k THEN v ELSE map[x]]

(***************************************************************************)
(* InvertedIndex over the storage.  add_term and get_postings of the       *)
(* storage-backed index: read-modify-write of one posting list.            *)
(***************************************************************************)
get_postings(dbv, field, term) == LmdbGet(dbv, field, term)

\* the possible storage states [db, buf] after add_term(doc_id, field, term)
add_term(st, bsize, doc_id, field, term) ==
    LET got == get_postings(st.db, field, term)
        postings == add_occurrence(IF got.some THEN got.val ELSE Postings_new,
                                   Usize(doc_id))
    IN  {[db |-> o.db, buf |-> o.buf] :
            o \in {x \in LmdbPutOutcomes(st.db, st.buf, bsize, field, term, postings) :
                     x.res = "Ok"}}

(***************************************************************************)
(* PySearchEngine (src/src/python.rs)                                      *)
(***************************************************************************)
\* map_field with every unknown name taken as the field Rua
map_field_unknown_as_rua(field_name) ==
    LET n == Str(MapChars(ToLower, field_name))
    IN  CASE n = "estado" -> Some("Estado")
          [] n = "municipio" -> Some("Municipio")
          [] n = "bairro" -> Some("Bairro")
          [] n = "cep" -> Some("Cep")
          [] n = "tipo_logradouro" -> Some("TipoLogradouro")
          [] n = "rua" -> Some("Rua")
          [] n = "numero" -> Some("Numero")
          [] n = "complemento" -> Some("Complemento")
          [] n = "nome" -> Some("Nome")
          [] OTHER -> Some("Rua")

map_field(field_name) ==
    LET n == Str(MapChars(ToLower, field_name))
    IN  CASE n = "estado" -> Some("Estado")
          [] n = "municipio" -> Some("Municipio")
          [] n = "bairro" -> Some("Bairro")
          [] n = "cep" -> Some("Cep")
          [] n = "tipo_logradouro" -> Some("TipoLogradouro")
          [] n = "rua" -> Some("Rua")
          [] n = "numero" -> Some("Numero")
          [] n = "complemento" -> Some("Complemento")
          [] n = "nome" -> Some("Nome")
          [] OTHER -> None

\* the (field, term) pairs a record dictionary yields
RecordTerms(record_dict) ==
    UNION {{<<map_field(k).val, t>> : t \in TokenCache[record_dict[k]].all}
           : k \in {x \in DOMAIN record_dict : map_field(x).some}}

\* index_dict, lines 212-215: add_term for every token of one field, the
\* tokens being iterated in any order
RECURSIVE IndexDictTokens(_, _, _, _, _)
IndexDictTokens(st, bsize, doc_id, field, tokens) ==
    IF tokens = {} THEN {st}
    ELSE UNION {UNION {IndexDictTokens(st2, bsize, doc_id, field, tokens \ {t}) :
                         st2 \in add_term(st, bsize, doc_id, field, t)}
                : t \in tokens}

\* index_dict, lines 201-228: the loop over the dictionary entries in the
\* order keys; state st = [db, buf, md]
RECURSIVE IndexDictFields(_, _, _, _, _)
IndexDictFields(st, bsize, doc_id, record_dict, keys) ==
    IF keys = <<>> THEN {st}
    ELSE LET key == Head(keys)
             mf == map_field(key)
         IN  IF ~mf.some
             THEN IndexDictFields(st, bsize, doc_id, record_dict, Tail(keys))
             ELSE LET field == mf.val
                      tokens == TokenCache[record_dict[key]].all
                      this_field_tokens == Cardinality(tokens)
                      md == [st.md EXCEPT
                               !.lengths =
                                  Insert(@, doc_id,
                                         Insert(GetOr(@, doc_id, EmptyMap), field,
                                                this_field_tokens)),
                               !.total_field_lengths =
                                  Insert(@, field, GetOr(@, field, 0) + this_field_tokens)]
                  IN  UNION {IndexDictFields([db |-> s2.db, buf |-> s2.buf, md |-> md],
                                             bsize, doc_id, record_dict, Tail(keys)) :
                               s2 \in IndexDictTokens([db |-> st.db, buf |-> st.buf],
                                                      bsize, doc_id, field, tokens)}

\* index_dict, lines 230-236: term_df once per (field, term) of the
\* document, then total_docs
IndexDictFinish(md, doc_id, doc_terms) ==
    [md EXCEPT
       !.term_df = [k \in DOMAIN @ \cup doc_terms |->
                      IF k \in doc_terms THEN GetOr(@, k, 0) + 1 ELSE @[k]],
       !.total_docs = IF doc_id >= @ THEN doc_id + 1 ELSE @]

IndexDict(doc_id, record_dict) ==
    /\ lock = "ok"
    /\ nops < MaxOps
    /\ \E keys \in IterOrders(DOMAIN record_dict) :
        \E st \in IndexDictFields([db |-> db, buf |-> write_buffer, md |-> metadata],
                                  batch_size, doc_id, record_dict, keys) :
            /\ db' = st.db
            /\ write_buffer' = st.buf
            /\ metadata' = IndexDictFinish(st.md, doc_id, RecordTerms(record_dict))
    /\ last' = [op |-> "index_dict", res |-> "Ok", doc_id |-> doc_id]
    /\ ingested' = ingested \cup {<<doc_id, k[1], k[2]>> : k \in RecordTerms(record_dict)}
    /\ seen_docs' = seen_docs \cup {doc_id}
    /\ calls' = calls \cup {"index_dict"}
    /\ nops' = nops + 1
    /\ UNCHANGED <<batch_size, data, lock, faulted, scorer, traceVars>>

\* index_batch, lines 144-156: the accumulator, (field, term) -> doc ids; the
\* doc ids are sorted and deduplicated at lines 161-162
BatchAccumulator(records) ==
    LET pairs == UNION {{<<k, records[i][1]>> : k \in RecordTerms(records[i][2])}
                        : i \in 1..Len(records)}
    IN  [k \in {p[1] : p \in pairs} |->
            SortedSeq({Usize(p[2]) : p \in {q \in pairs : q[1] = k}})]

RECURSIVE AddAll(_, _)
AddAll(postings, doc_ids) ==
    IF doc_ids = <<>> THEN postings
    ELSE AddAll(add_occurrence(postings, Head(doc_ids)), Tail(doc_ids))

\* index_batch, lines 160-181: the write loop over the accumulator in the
\* order keys; state st = [db, buf, md, res].  The read of the key rfail
\* fails (unwrap_or_default turns the error into None); a failed put panics
\* (unwrap) and ends the loop.
RECURSIVE IndexBatchWrite(_, _, _, _, _)
IndexBatchWrite(st, bsize, acc, keys, rfail) ==
    IF keys = <<>> \/ st.res # "Ok" THEN {st}
    ELSE LET key == Head(keys)
             got == IF key = rfail THEN None ELSE LmdbGet(st.db, key[1], key[2])
             postings == AddAll(IF got.some THEN got.val ELSE Postings_new, acc[key])
             md == [st.md EXCEPT !.term_df = Insert(@, key, len(postings))]
         IN  UNION {IndexBatchWrite([db |-> o.db, buf |-> o.buf, md |-> md,
                                     res |-> IF o.res = "Ok" THEN "Ok" ELSE "panic"],
                                    bsize, acc, Tail(keys), rfail) :
                      o \in LmdbPutOutcomes(st.db, st.buf, bsize, key[1], key[2], postings)}

\* index_batch; any_run: the accumulator is iterated in any order and a read
\* may fail, otherwise it is iterated in one order and no read fails
IndexBatchRun(records, any_run) ==
    /\ lock = "ok"
    /\ nops < MaxOps
    /\ LET acc == BatchAccumulator(records)
           md0 == [metadata EXCEPT !.total_docs = @ + Len(records)]
       IN  \E keys \in IF any_run THEN IterOrders(DOMAIN acc) ELSE {SeqOf(DOMAIN acc)} :
           \E rfail \in IF any_run THEN DOMAIN acc \cup {<<>>} ELSE {<<>>} :
           \E st \in IndexBatchWrite([db |-> db, buf |-> write_buffer, md |-> md0,
                                      res |-> "Ok"],
                                     batch_size, acc, keys, rfail) :
               /\ db' = st.db
               /\ write_buffer' = st.buf
               /\ metadata' = st.md
               /\ lock' = IF st.res = "Ok" THEN "ok" ELSE "poisoned"
               /\ last' = [op |-> "index_batch", res |-> st.res, acc |-> acc,
                           rfail |-> rfail]
               /\ faulted' = (faulted \/ st.res # "Ok" \/ rfail # <<>>)
               /\ ingested' = ingested \cup
                               UNION {{<<NatOf(acc[k][i]), k[1], k[2]>> : i \in 1..Len(acc[k])}
                                            : k \in DOMAIN acc}
    /\ seen_docs' = seen_docs \cup {records[i][1] : i \in 1..Len(records)}
    /\ calls' = calls \cup {"index_batch"}
    /\ nops' = nops + 1
    /\ UNCHANGED <<batch_size, data, scorer, traceVars>>

IndexBatch(records) == IndexBatchRun(records, TRUE)

\* PySearchEngine::flush
Flush ==
    /\ lock = "ok"
    /\ nops < MaxOps
    /\ \E o \in LmdbFlushOutcomes(db, write_buffer) :
        /\ db' = o.db
        /\ write_buffer' = o.buf
        /\ last' = [op |-> "flush", res |-> o.res, pending |-> write_buffer]
        /\ faulted' = (faulted \/ o.res # "Ok")
    /\ nops' = nops + 1
    /\ UNCHANGED <<batch_size, data, metadata, lock, ingested, seen_docs, calls, scorer, traceVars>>

(***************************************************************************)
(* f32 arithmetic of the scorer: finite values in units of 1/1000, the     *)
(* two infinities (v = 1 or -1) and NaN, with the IEEE rules for them.     *)
(***************************************************************************)
f32(v) == [k |-> "num", v |-> v]

NaN == [k |-> "nan", v |-> 0]

Inf(s) == [k |-> "inf", v |-> s]

f32_add(a, b) ==
    IF a.k = "nan" \/ b.k = "nan" THEN NaN
    ELSE IF a.k = "inf" THEN (IF b.k = "inf" /\ b.v # a.v THEN NaN ELSE a)
    ELSE IF b.k = "inf" THEN b
    ELSE f32(a.v + b.v)

f32_mul(a, b) ==
    IF a.k = "nan" \/ b.k = "nan" THEN NaN
    ELSE IF a.k = "inf" \/ b.k = "inf"
         THEN (IF a.v = 0 \/ b.v = 0 THEN NaN
               ELSE Inf(IF (a.v < 0) = (b.v < 0) THEN 1 ELSE -1))
    ELSE f32((a.v * b.v) \div 1000)

f32_div(a, b) ==
    IF a.k = "nan" \/ b.k = "nan" THEN NaN
    ELSE IF a.k = "inf"
         THEN (IF b.k = "inf" THEN NaN ELSE Inf(IF b.v < 0 THEN -a.v ELSE a.v))
    ELSE IF b.k = "inf" THEN f32(0)
    ELSE IF b.v = 0 THEN (IF a.v = 0 THEN NaN ELSE Inf(IF a.v < 0 THEN -1 ELSE 1))
    ELSE IF b.v < 0 THEN f32((-a.v * 1000) \div (-b.v))
    ELSE f32((a.v * 1000) \div b.v)

\* a < b under partial_cmp: NaN is ordered with nothing
f32_lt(a, b) ==
    /\ a.k # "nan"
    /\ b.k # "nan"
    /\ IF a.k = "inf" THEN a.v = -1 /\ ~(b.k = "inf" /\ b.v = -1)
       ELSE IF b.k = "inf" THEN b.v = 1
       ELSE a.v < b.v

\* 1000 * ln(n), n = 1..64
LN_1000 ==
    <<0, 693, 1099, 1386, 1609, 1792, 1946, 2079, 2197, 2303, 2398, 2485, 2565,
      2639, 2708, 2773, 2833, 2890, 2944, 2996, 3045, 3091, 3135, 3178, 3219,
      3258, 3296, 3332, 3367, 3401, 3434, 3466, 3497, 3526, 3555, 3584, 3611,
      3638, 3664, 3689, 3714, 3738, 3761, 3784, 3807, 3829, 3850, 3871, 3892,
      3912, 3932, 3951, 3970, 3989, 4007, 4025, 4043, 4060, 4078, 4094, 4111,
      4127, 4143, 4159>>

(***************************************************************************)
(* BM25FScorer (src/src/scorer.rs)                                         *)
(***************************************************************************)
\* the scorer SearchEngine::with_storage builds
BM25FScorer_new == [k1 |-> f32(1200), field_weights |-> EmptyMap, field_b |-> EmptyMap]

\* FieldMetadata::get_df
get_df(md, field, term) == GetOr(md.term_df, <<field, term>>, 0)

\* ln((N - df + 0.5) / (df + 0.5) + 1), the argument being (2N + 2) / (2df + 1)
calculate_idf(term, field, md) ==
    f32(LN_1000[2 * md.total_docs + 2] - LN_1000[2 * get_df(md, field, term) + 1])

calculate_avg_lengths(md) ==
    [f \in DOMAIN md.total_field_lengths |->
        f32_div(f32(md.total_field_lengths[f] * 1000), f32(md.total_docs * 1000))]

\* InvertedIndex::get_postings as the search calls it: the reads of the keys
\* in rfail fail, and a failed read yields None
try_get_postings(dbv, key, rfail) ==
    IF key \in rfail THEN None ELSE get_postings(dbv, key[1], key[2])

\* score_taat_cached, lines 50-71: the postings of the query tokens, read by
\* get_batch, or one by one when get_batch returns an error
postings_cache(dbv, query_list, rfail) ==
    LET results == IF \E i \in DOMAIN query_list : query_list[i] \in rfail
                   THEN [i \in DOMAIN query_list |->
                            try_get_postings(dbv, query_list[i], rfail)]
                   ELSE LmdbGetBatch(dbv, query_list)
    IN  [key \in {query_list[i] : i \in {j \in DOMAIN query_list : results[j].some}} |->
            results[CHOOSE i \in DOMAIN query_list : query_list[i] = key].val]

\* score_taat_cached, lines 107-132: the contribution of one query token to
\* the score of the document doc_id of its posting list
contribution(sc, md, field, idf, postings, doc_id) ==
    LET weight == GetOr(sc.field_weights, field, f32(1000))
        b == GetOr(sc.field_b, field, f32(750))
        avgdl == GetOr(calculate_avg_lengths(md), field, f32(1000))
        tf == NatOf(GetOr(postings.frequencies, as_usize(doc_id), <<0, 0>>))
        dl == GetOr(GetOr(md.lengths, NatOf(doc_id), EmptyMap), field, 0)
        weighted_tf ==
            f32_div(f32_mul(f32(tf * 1000), weight),
                    f32_add(f32(1000),
                            f32_mul(b, f32_add(f32_div(f32(dl * 1000), avgdl),
                                               f32(-1000)))))
    IN  f32_mul(idf, f32_div(weighted_tf, f32_add(sc.k1, weighted_tf)))

\* score_taat_cached, lines 96-137: the accumulator of doc_id after the query
\* tokens from position i on
RECURSIVE accumulate(_, _, _, _, _, _, _)
accumulate(sc, md, cache, query_tokens, doc_id, i, acc) ==
    IF i > Len(query_tokens) THEN acc
    ELSE LET key == query_tokens[i]
         IN  IF key \in DOMAIN cache /\ doc_id \in cache[key].bitmap
             THEN accumulate(sc, md, cache, query_tokens, doc_id, i + 1,
                             f32_add(acc, contribution(sc, md, key[1],
                                                       calculate_idf(key[2], key[1], md),
                                                       cache[key], doc_id)))
             ELSE accumulate(sc, md, cache, query_tokens, doc_id, i + 1, acc)

\* scores.sort_by(|a, b| b.1.partial_cmp(&a.1).unwrap_or(Equal)) over the
\* entries of the map in any iteration order: no entry is directly followed
\* by one the comparison puts before it
sort_by_score(acc) ==
    {s \in IterOrders({<<as_usize(d), acc[d]>> : d \in DOMAIN acc}) :
        \A i \in 1..(Len(s) - 1) : ~f32_lt(s[i][2], s[i + 1][2])}

\* the scorer without the candidate test: a score for every document of a
\* cached posting list
score_taat_cached_all_postings(sc, candidates, query_tokens, dbv, md, rfail) ==
    sort_by_score(
        [doc_id \in UNION {postings_cache(dbv, query_tokens, rfail)[key].bitmap :
                             key \in DOMAIN postings_cache(dbv, query_tokens, rfail)} |->
            accumulate(sc, md, postings_cache(dbv, query_tokens, rfail),
                       query_tokens, doc_id, 1, f32(0))])

\* score_taat_cached: the accumulators, a score for every candidate found in
\* a cached posting list, sorted
score_taat_cached(sc, candidates, query_tokens, dbv, md, rfail) ==
    sort_by_score(
        [doc_id \in {d \in candidates :
                        \E key \in DOMAIN postings_cache(dbv, query_tokens, rfail) :
                            d \in postings_cache(dbv, query_tokens, rfail)[key].bitmap} |->
            accumulate(sc, md, postings_cache(dbv, query_tokens, rfail),
                       query_tokens, doc_id, 1, f32(0))])

(***************************************************************************)
(* SearchEngine::execute (src/src/engine.rs)                               *)
(***************************************************************************)
\* execute, lines 79-82: the scoring list, (field, token) for all tokens of
\* every query field
RECURSIVE all_query_tokens(_)
all_query_tokens(fields) ==
    IF fields = <<>> THEN <<>>
    ELSE LET toks == SeqOf(TokenCache[Head(fields)[2]].all)
         IN  [i \in 1..Len(toks) |-> <<Head(fields)[1], toks[i]>>]
             \o all_query_tokens(Tail(fields))

\* the union of the bitmaps of the posting lists found for keys
union_bitmaps(dbv, keys, rfail) ==
    UNION {try_get_postings(dbv, key, rfail).val.bitmap :
             key \in {k \in keys : try_get_postings(dbv, k, rfail).some}}

\* execute, lines 52-77: the candidates of the distinctive tokens
round1_candidates(dbv, fields, rfail) ==
    union_bitmaps(dbv, UNION {{<<fields[i][1], t>> : t \in TokenCache[fields[i][2]].distinctive}
                              : i \in DOMAIN fields}, rfail)

\* the fallback taking any min(5, len) entries that have a term_df
k_rarest_unranked(md, query_tokens) ==
    LET token_rareness == {i \in DOMAIN query_tokens : query_tokens[i] \in DOMAIN md.term_df}
        k == IF Cardinality(token_rareness) < 5 THEN Cardinality(token_rareness) ELSE 5
    IN  {S \in SUBSET token_rareness : Cardinality(S) = k}

\* execute, lines 90-102: the positions of the scoring list the fallback
\* takes, min(5, len) entries of least term_df among those with a term_df
k_rarest(md, query_tokens) ==
    LET token_rareness == {i \in DOMAIN query_tokens : query_tokens[i] \in DOMAIN md.term_df}
        k == IF Cardinality(token_rareness) < 5 THEN Cardinality(token_rareness) ELSE 5
    IN  {S \in SUBSET token_rareness :
            /\ Cardinality(S) = k
            /\ \A i \in S, j \in token_rareness \ S :
                  md.term_df[query_tokens[i]] <= md.term_df[query_tokens[j]]}

\* execute, lines 49-119: the possible candidate sets
candidates_of(dbv, md, fields, rfail) ==
    IF round1_candidates(dbv, fields, rfail) # {} \/ all_query_tokens(fields) = <<>>
    THEN {round1_candidates(dbv, fields, rfail)}
    ELSE {union_bitmaps(dbv, {all_query_tokens(fields)[i] : i \in S}, rfail) :
            S \in k_rarest(md, all_query_tokens(fields))}

\* the possible results of execute, each with the candidate set and the
\* scored list it was taken from
execute(dbv, md, sc, query, rfail) ==
    UNION {IF candidates = {}
           THEN {[hits |-> <<>>, scored |-> <<>>, candidates |-> candidates]}
           ELSE {[hits |-> SubSeq(s, 1, IF query.top_k < Len(s) THEN query.top_k ELSE Len(s)),
                  scored |-> s, candidates |-> candidates] :
                   s \in score_taat_cached(sc, candidates, all_query_tokens(query.fields),
                                           dbv, md, rfail)}
           : candidates \in candidates_of(dbv, md, query.fields, rfail)}

(***************************************************************************)
(* PySearchEngine: the handles and search_complex (src/src/python.rs)      *)
(***************************************************************************)
\* PySearchEngine::new: a handle without custom weights
PySearchEngine_new == [custom_weights |-> None, custom_b_values |-> None]

\* the entries of the known fields, as set_field_weights and
\* set_field_b_values collect them
known_fields(values) ==
    [f \in {map_field(n).val : n \in {x \in DOMAIN values : map_field(x).some}} |->
        values[CHOOSE n \in DOMAIN values : map_field(n) = Some(f)]]

set_field_weights(h, weights) == [h EXCEPT !.custom_weights = Some(known_fields(weights))]

set_field_b_values(h, b_values) == [h EXCEPT !.custom_b_values = Some(known_fields(b_values))]

\* text.trim().is_empty()
trim_is_empty(text) == \A i \in DOMAIN text : text[i] \in {" ", "\t", "\n", "\r"}

\* search_complex, lines 272-288: the query fields, (field, text) for the
\* entries with a text and a known field name
query_fields(query_dict) ==
    LET names == SeqOf({n \in DOMAIN query_dict :
                          ~trim_is_empty(query_dict[n]) /\ map_field(n).some})
    IN  [i \in 1..Len(names) |-> <<map_field(names[i]).val, query_dict[names[i]]>>]

\* search_complex, lines 316-324: the scorer after the handle's custom values
\* are written into it
apply_custom(sc, handle) ==
    [sc EXCEPT !.field_weights = IF handle.custom_weights.some
                                 THEN handle.custom_weights.val ELSE @,
               !.field_b = IF handle.custom_b_values.some
                           THEN handle.custom_b_values.val ELSE @]

\* the read faults of one search: none, or the reads of one stored key fail
ReadFaults(dbv, fields) ==
    {{}} \cup {{key} : key \in {k \in Range(all_query_tokens(fields)) :
                                   get_postings(dbv, k[1], k[2]).some}}

\* the calls in progress on GLOBAL_ENGINE: none
Threads == {1, 2}

NoThreads == [t \in Threads |-> [pc |-> "idle", op |-> "none"]]

\* an engine's index and metadata, as SearchEngine::with_storage builds them
EngineNew == [db |-> EmptyMap, buf |-> <<>>, md |-> FieldMetadata_new]

\* the two engines before any record is given to them
NoTwin == [records |-> <<>>, bsize |-> BATCH_SIZE, done |-> 0, batched_done |-> 0,
           flushed |-> FALSE, per_record |-> EngineNew, batched |-> EngineNew]

Init ==
    /\ db = EmptyMap
    /\ write_buffer = <<>>
    /\ batch_size \in EngineBatchSizes
    /\ data = EmptyMap
    /\ metadata = FieldMetadata_new
    /\ lock = "ok"
    /\ last = [op |-> "new"]
    /\ ingested = {}
    /\ seen_docs = {}
    /\ calls = {}
    /\ faulted = FALSE
    /\ nops = 0
    /\ backend = "lmdb"
    /\ hist = <<>>
    /\ wtxn = NoWtxn
    /\ rtxn = NoRtxn
    /\ commits = <<>>
    /\ postings_obj = Postings_new
    /\ added = <<>>
    /\ scorer = BM25FScorer_new
    /\ threads = NoThreads
    /\ twin = NoTwin

Next ==
    \/ \E records \in ModelBatches : IndexBatch(records)
    \/ \E doc_id \in ModelDocIds, record_dict \in ModelRecords :
          IndexDict(doc_id, record_dict)
    \/ Flush

Spec == Init /\ [][Next]_vars

(***************************************************************************)
(* The storage backends on their own: put and flush on one backend, the    *)
(* reads being the operators LmdbGet, LmdbGetBatch, LmdbContains, LmdbIter *)
(* and MemGet over the state.                                              *)
(***************************************************************************)
\* number of storage operations in a behaviour
MaxStorageOps == 3

ModelKeys == {<<"Rua", T_x>>, <<"Cep", <<"y">>>>}

\* postings built by add_doc: doc 0 once; doc 0 twice and doc 1 once
ModelPostings ==
    {add_doc(Postings_new, Usize(0)),
     add_doc(add_doc(add_doc(Postings_new, Usize(0)), Usize(0)), Usize(1))}

engineOnlyVars == <<metadata, lock, last, ingested, seen_docs, calls, searchVars>>

LmdbPut(field, term, postings) ==
    /\ backend = "lmdb"
    /\ nops < MaxStorageOps
    /\ \E o \in LmdbPutOutcomes(db, write_buffer, batch_size, field, term, postings) :
        /\ db' = o.db
        /\ write_buffer' = o.buf
        /\ faulted' = (faulted \/ o.res # "Ok")
        /\ hist' = Append(hist,
                          [op |-> "put", key |-> <<field, term>>, postings |-> postings,
                           res |-> o.res,
                           flushed |-> Len(write_buffer) + 1 >= batch_size,
                           pending |-> Append(write_buffer,
                                              <<encode_key(field, term),
                                                serialize(postings)>>)])
    /\ nops' = nops + 1
    /\ UNCHANGED <<batch_size, data, backend, engineOnlyVars, txnVars, postingsVars>>

LmdbFlush ==
    /\ backend = "lmdb"
    /\ nops < MaxStorageOps
    /\ \E o \in LmdbFlushOutcomes(db, write_buffer) :
        /\ db' = o.db
        /\ write_buffer' = o.buf
        /\ faulted' = (faulted \/ o.res # "Ok")
        /\ hist' = Append(hist, [op |-> "flush", res |-> o.res, flushed |-> TRUE,
                                 pending |-> write_buffer])
    /\ nops' = nops + 1
    /\ UNCHANGED <<batch_size, data, backend, engineOnlyVars, txnVars, postingsVars>>

InMemoryPut(field, term, postings) ==
    /\ backend = "memory"
    /\ nops < MaxStorageOps
    /\ data' = MemPut(data, field, term, postings)
    /\ hist' = Append(hist, [op |-> "put", key |-> <<field, term>>, postings |-> postings,
                             res |-> "Ok", flushed |-> FALSE, pending |-> <<>>])
    /\ nops' = nops + 1
    /\ UNCHANGED <<lmdbVars, faulted, backend, engineOnlyVars, txnVars, postingsVars>>

\* InMemoryStorage::flush is a no-op
InMemoryFlush ==
    /\ backend = "memory"
    /\ nops < MaxStorageOps
    /\ hist' = Append(hist, [op |-> "flush", res |-> "Ok", flushed |-> FALSE,
                             pending |-> <<>>])
    /\ nops' = nops + 1
    /\ UNCHANGED <<lmdbVars, data, faulted, backend, engineOnlyVars, txnVars, postingsVars>>

InitStorage ==
    /\ db = EmptyMap
    /\ write_buffer = <<>>
    /\ batch_size \in BatchSizes
    /\ data = EmptyMap
    /\ metadata = FieldMetadata_new
    /\ lock = "ok"
    /\ last = [op |-> "new"]
    /\ ingested = {}
    /\ seen_docs = {}
    /\ calls = {}
    /\ faulted = FALSE
    /\ nops = 0
    /\ backend \in {"lmdb", "memory"}
    /\ hist = <<>>
    /\ wtxn = NoWtxn
    /\ rtxn = NoRtxn
    /\ commits = <<>>
    /\ postings_obj = Postings_new
    /\ added = <<>>
    /\ scorer = BM25FScorer_new
    /\ threads = NoThreads
    /\ twin = NoTwin

NextStorage ==
    \/ \E k \in ModelKeys, p \in ModelPostings : LmdbPut(k[1], k[2], p)
    \/ LmdbFlush
    \/ \E k \in ModelKeys, p \in ModelPostings : InMemoryPut(k[1], k[2], p)
    \/ InMemoryFlush

SpecStorage == InitStorage /\ [][NextStorage]_vars

\* get of the backend in use
StorageGet(field, term) ==
    IF backend = "lmdb" THEN LmdbGet(db, field, term) ELSE MemGet(data, field, term)

\* observational equality of two postings: same doc ids, same frequencies
SamePostings(p, q) ==
    /\ p.bitmap = q.bitmap
    /\ DOMAIN p.frequencies = DOMAIN q.frequencies
    /\ \A d \in DOMAIN p.frequencies : p.frequencies[d] = q.frequencies[d]

LastOp == hist[Len(hist)]

\* C2: a get(k) right after put(k, p) returned Ok, with no flush in between,
\* returns Some(p') with the doc ids and the frequencies of p, on both backends.
C2_GetAfterPutReturnsPut ==
    (hist # <<>> /\ LastOp.op = "put" /\ LastOp.res = "Ok" /\ ~faulted) =>
        LET got == StorageGet(LastOp.key[1], LastOp.key[2])
        IN  got.some /\ SamePostings(got.val, LastOp.postings)

\* C3: after put(k, p1), put(k, p2) and flush, get(k) returns p2.
C3_LaterPutReplacesEarlier ==
    (/\ Len(hist) >= 3
     /\ hist[Len(hist) - 2].op = "put" /\ hist[Len(hist) - 2].res = "Ok"
     /\ hist[Len(hist) - 1].op = "put" /\ hist[Len(hist) - 1].res = "Ok"
     /\ hist[Len(hist) - 2].key = hist[Len(hist) - 1].key
     /\ LastOp.op = "flush" /\ LastOp.res = "Ok"
     /\ ~faulted) =>
        LET k == hist[Len(hist) - 1].key
            got == StorageGet(k[1], k[2])
        IN  got.some /\ SamePostings(got.val, hist[Len(hist) - 1].postings)

\* the puts that returned Ok and were not followed by a put of the same key
AcceptedPuts ==
    {i \in 1..Len(hist) :
        /\ hist[i].op = "put" /\ hist[i].res = "Ok"
        /\ \A j \in (i + 1)..Len(hist) : hist[j].op = "put" => hist[j].key # hist[i].key}

\* (field, term, postings) is what the four reads of the on-disk backend return
ReadBack(field, term, postings) ==
    /\ LmdbGet(db, field, term).some
    /\ SamePostings(LmdbGet(db, field, term).val, postings)
    /\ LmdbContains(db, field, term)
    /\ LmdbGetBatch(db, <<<<field, term>>>>)[1] = LmdbGet(db, field, term)
    /\ \E e \in LmdbIter(db) : e[1] = <<field, term>> /\ SamePostings(e[2], postings)

\* C4: after flush returned Ok on the on-disk backend, the write buffer is empty
\* and every entry accepted by put before that flush is returned by get,
\* contains, get_batch and iter.
C4_FlushMakesAcceptedEntriesReadable ==
    (backend = "lmdb" /\ hist # <<>> /\ LastOp.op = "flush" /\ LastOp.res = "Ok") =>
        /\ write_buffer = <<>>
        /\ \A i \in AcceptedPuts :
              ReadBack(hist[i].key[1], hist[i].key[2], hist[i].postings)

(***************************************************************************)
(* A flush step by step, with a reader on another thread.  The writer      *)
(* holds the buffer mutex and a write transaction from the sort to the     *)
(* commit; a read transaction reads the content committed when it was      *)
(* opened.                                                                 *)
(***************************************************************************)
\* number of calls (put, flush, reads) in a behaviour
MaxTxnOps == 4

ReaderKinds == {"get", "get_batch", "trait_get_batch"}

\* the queries a reader of each kind asks
ReaderQueries(kind) ==
    IF kind = "get" THEN {<<k>> : k \in ModelKeys}
    ELSE {<<j, k>> : j, k \in ModelKeys} \ {<<k, k>> : k \in ModelKeys}

nonTxnVars == <<searchVars, data, metadata, lock, last, ingested, seen_docs, calls, faulted,
                backend, hist, postingsVars>>

\* the start of LmdbStorage::flush: lock the buffer, sort it, open the write
\* transaction and start draining
BeginFlush(buf) ==
    \E s \in WriteBuffer_sort(buf) :
        /\ wtxn' = [pc |-> "open", view |-> db, todo |-> s]
        /\ write_buffer' = <<>>

\* LmdbStorage::put up to the point where it returns or enters flush
TxnPut(field, term, postings) ==
    /\ wtxn.pc = "idle"
    /\ nops < MaxTxnOps
    /\ LET pushed == Append(write_buffer, <<encode_key(field, term), serialize(postings)>>)
       IN  IF Len(pushed) < batch_size
           THEN write_buffer' = pushed /\ wtxn' = wtxn
           ELSE BeginFlush(pushed)
    /\ nops' = nops + 1
    /\ UNCHANGED <<db, batch_size, rtxn, commits, nonTxnVars>>

\* LmdbStorage::flush called with a non-empty buffer
TxnFlush ==
    /\ wtxn.pc = "idle"
    /\ nops < MaxTxnOps
    /\ write_buffer # <<>>
    /\ BeginFlush(write_buffer)
    /\ nops' = nops + 1
    /\ UNCHANGED <<db, batch_size, rtxn, commits, nonTxnVars>>

\* one db.put of the drain loop, inside the write transaction
TxnWrite ==
    /\ wtxn.pc = "open"
    /\ wtxn.todo # <<>>
    /\ wtxn' = [wtxn EXCEPT !.view = WtxnPutAll(wtxn.view, <<Head(wtxn.todo)>>),
                            !.todo = Tail(wtxn.todo)]
    /\ UNCHANGED <<lmdbVars, rtxn, commits, nops, nonTxnVars>>

\* wtxn.commit(): the view of the transaction becomes the committed content
TxnCommit ==
    /\ wtxn.pc = "open"
    /\ wtxn.todo = <<>>
    /\ db' = wtxn.view
    /\ commits' = Append(commits,
                         {k \in DOMAIN wtxn.view :
                             k \notin DOMAIN db \/ db[k] # wtxn.view[k]})
    /\ wtxn' = NoWtxn
    /\ UNCHANGED <<write_buffer, batch_size, rtxn, nops, nonTxnVars>>

\* db.put or commit fails: the transaction is dropped, the drained entries
\* are gone
TxnAbort ==
    /\ wtxn.pc = "open"
    /\ wtxn' = NoWtxn
    /\ UNCHANGED <<lmdbVars, rtxn, commits, nops, nonTxnVars>>

\* a reader starts; get and LmdbStorage::get_batch open their read
\* transaction here
ReadBegin(kind, queries) ==
    /\ rtxn.pc # "reading"
    /\ nops < MaxTxnOps
    /\ rtxn' = [pc |-> "reading", kind |-> kind, snapshot |-> db,
                version |-> Len(commits), todo |-> queries, results |-> <<>>]
    /\ nops' = nops + 1
    /\ UNCHANGED <<lmdbVars, wtxn, commits, nonTxnVars>>

\* one query of the reader: get and LmdbStorage::get_batch read through the
\* transaction opened at the start; PostingsStorage::get_batch, which is what
\* a caller generic over the storage gets for LmdbStorage, calls get, which
\* opens a read transaction of its own
ReadStep ==
    /\ rtxn.pc = "reading"
    /\ rtxn.todo # <<>>
    /\ LET q == Head(rtxn.todo)
           own == rtxn.kind = "trait_get_batch"
           view == IF own THEN db ELSE rtxn.snapshot
           version == IF own THEN Len(commits) ELSE rtxn.version
       IN  rtxn' = [rtxn EXCEPT
                       !.todo = Tail(rtxn.todo),
                       !.results = Append(rtxn.results,
                                          [key |-> encode_key(q[1], q[2]),
                                           val |-> get_with_txn(view, q[1], q[2]),
                                           version |-> version])]
    /\ UNCHANGED <<lmdbVars, wtxn, commits, nops, nonTxnVars>>

ReadEnd ==
    /\ rtxn.pc = "reading"
    /\ rtxn.todo = <<>>
    /\ rtxn' = [rtxn EXCEPT !.pc = "done"]
    /\ UNCHANGED <<lmdbVars, wtxn, commits, nops, nonTxnVars>>

InitTxn ==
    /\ db = EmptyMap
    /\ write_buffer = <<>>
    /\ batch_size \in BatchSizes
    /\ data = EmptyMap
    /\ metadata = FieldMetadata_new
    /\ lock = "ok"
    /\ last = [op |-> "new"]
    /\ ingested = {}
    /\ seen_docs = {}
    /\ calls = {}
    /\ faulted = FALSE
    /\ nops = 0
    /\ backend = "lmdb"
    /\ hist = <<>>
    /\ wtxn = NoWtxn
    /\ rtxn = NoRtxn
    /\ commits = <<>>
    /\ postings_obj = Postings_new
    /\ added = <<>>
    /\ scorer = BM25FScorer_new
    /\ threads = NoThreads
    /\ twin = NoTwin

NextTxn ==
    \/ \E k \in ModelKeys : TxnPut(k[1], k[2], add_doc(Postings_new, Usize(0)))
    \/ TxnFlush
    \/ TxnWrite
    \/ TxnCommit
    \/ TxnAbort
    \/ \E kind \in ReaderKinds : \E queries \in ReaderQueries(kind) :
          ReadBegin(kind, queries)
    \/ ReadStep
    \/ ReadEnd

SpecTxn == InitTxn /\ [][NextTxn]_vars

\* the reads of the reader that asked for a key of the b-th committed batch
ReadsOfBatch(b) ==
    {i \in 1..Len(rtxn.results) : rtxn.results[i].key \in commits[b]}

\* C6: a reader (get, get_batch or a search) at any point relative to a flush,
\* or to the put that fills the buffer, sees every entry of the committed
\* write batch or none of them.
C6_ReaderSeesAllOrNoneOfBatch ==
    \A b \in 1..Len(commits) :
        \/ \A i \in ReadsOfBatch(b) : rtxn.results[i].version >= b
        \/ \A i \in ReadsOfBatch(b) : rtxn.results[i].version < b

(***************************************************************************)
(* A Postings value on its own, built from new() by add_doc calls.         *)
(***************************************************************************)
\* number of add_doc calls in a behaviour
MaxAdds == 4

\* doc ids 0, 1, 2^16 and 2^32
PostingDocIds == {Usize(0), Usize(1), <<0, 0, 1, 0>>, <<0, 1, 0, 0>>}

AddDoc(doc_id) ==
    /\ Len(added) < MaxAdds
    /\ postings_obj' = add_doc(postings_obj, doc_id)
    /\ added' = Append(added, doc_id)
    /\ UNCHANGED <<searchVars, lmdbVars, data, metadata, lock, last, ingested, seen_docs, calls,
                   faulted, nops, backend, hist, txnVars>>

InitPostings ==
    /\ db = EmptyMap
    /\ write_buffer = <<>>
    /\ batch_size = BATCH_SIZE
    /\ data = EmptyMap
    /\ metadata = FieldMetadata_new
    /\ lock = "ok"
    /\ last = [op |-> "new"]
    /\ ingested = {}
    /\ seen_docs = {}
    /\ calls = {}
    /\ faulted = FALSE
    /\ nops = 0
    /\ backend = "memory"
    /\ hist = <<>>
    /\ wtxn = NoWtxn
    /\ rtxn = NoRtxn
    /\ commits = <<>>
    /\ postings_obj = Postings_new
    /\ added = <<>>
    /\ scorer = BM25FScorer_new
    /\ threads = NoThreads
    /\ twin = NoTwin

NextPostings == \E doc_id \in PostingDocIds : AddDoc(doc_id)

SpecPostings == InitPostings /\ [][NextPostings]_vars

\* the doc id fits 32 bits
FitsU32(doc_id) == doc_id[1] = 0 /\ doc_id[2] = 0

TimesAdded(doc_id) == Cardinality({i \in 1..Len(added) : added[i] = doc_id})

\* C7: for a Postings built from new() by add_doc calls with doc ids up to
\* 2^32-1, a doc id is in the bitmap iff it is a key of frequencies, every
\* frequency is at least 1, len() is the number of distinct doc ids added and
\* frequencies[d] is the number of times d was added.
C7_BitmapMatchesFrequencies ==
    (\A i \in 1..Len(added) : FitsU32(added[i])) =>
        /\ \A d \in {x \in PostingDocIds : FitsU32(x)}
                    \cup {as_usize(b) : b \in postings_obj.bitmap} :
              contains(postings_obj, d) <=> d \in DOMAIN postings_obj.frequencies
        /\ \A d \in DOMAIN postings_obj.frequencies :
              /\ postings_obj.frequencies[d] # <<0, 0>>
              /\ NatOf(postings_obj.frequencies[d]) = TimesAdded(d)
        /\ len(postings_obj) = Cardinality(Range(added))

\* a doc id added twice and another added once, all below 2^32
C7_Witness ==
    /\ Len(added) >= 3
    /\ \A i \in 1..Len(added) : FitsU32(added[i])
    /\ \E d \in Range(added) : TimesAdded(d) = 2
    /\ Cardinality(Range(added)) >= 2

(***************************************************************************)
(* Properties of the indexing operations                                   *)
(***************************************************************************)
\* the doc ids of the posting list committed for (field, term)
StoredDocs(field, term) ==
    LET got == LmdbGet(db, field, term)
    IN  IF got.some THEN {NatOf(b) : b \in got.val.bitmap} ELSE {}

\* the doc ids ingested with (field, term)
IngestedDocs(field, term) == {x[1] : x \in {y \in ingested : y[2] = field /\ y[3] = term}}

IngestedKeys == {<<x[2], x[3]>> : x \in ingested}

StoredKeys == {decode_key(k) : k \in DOMAIN db}

FlushedOk == last.op = "flush" /\ last.res = "Ok" /\ ~faulted

\* C1: after index_dict and index_batch calls followed by a flush, the posting
\* list stored for every (field, term) holds exactly the doc ids ingested
\* with that field and term.
C1_StoredPostingsAreIngestedDocs ==
    FlushedOk =>
        \A k \in IngestedKeys \cup StoredKeys :
            StoredDocs(k[1], k[2]) = IngestedDocs(k[1], k[2])

\* C5: when index_batch returns, every posting list of the batch is readable
\* with get and holds the doc ids of the batch, without a flush.
C5_BatchCommittedOnReturn ==
    (last.op = "index_batch" /\ last.res = "Ok" /\ ~faulted) =>
        \A k \in DOMAIN last.acc :
            /\ LmdbGet(db, k[1], k[2]).some
            /\ {NatOf(d) : d \in Range(last.acc[k])} \subseteq StoredDocs(k[1], k[2])

\* C8: after single-record ingests followed by a flush, term_df of every
\* stored (field, term) is the number of doc ids of its posting list.
C8_TermDfIsPostingCount ==
    (FlushedOk /\ calls \subseteq {"index_dict"}) =>
        \A k \in StoredKeys :
            GetOr(metadata.term_df, k, 0) = Cardinality(StoredDocs(k[1], k[2]))

RECURSIVE SumOver(_, _)
SumOver(f, S) ==
    IF S = {} THEN 0
    ELSE LET x == CHOOSE y \in S : TRUE IN f[x] + SumOver(f, S \ {x})

\* the sum over the documents of lengths[d][field]
SumOfLengths(field) ==
    SumOver([d \in DOMAIN metadata.lengths |-> GetOr(metadata.lengths[d], field, 0)],
            DOMAIN metadata.lengths)

\* C9: after index_dict calls, for every field the sum over the documents of
\* lengths[d][f] equals total_field_lengths[f].
C9_LengthsSumToTotal ==
    calls \subseteq {"index_dict"} =>
        \A f \in RecordField :
            SumOfLengths(f) = GetOr(metadata.total_field_lengths, f, 0)

\* the doc ids ingested so far are 0..n-1
DenseDocIds == seen_docs = 0..(Cardinality(seen_docs) - 1)

\* C10: total_docs is the number of distinct doc ids ingested so far, and no
\* step decreases it.
C10_TotalDocsCountsDistinctIds ==
    /\ []((lock = "ok" /\ DenseDocIds) => metadata.total_docs = Cardinality(seen_docs))
    /\ [][metadata'.total_docs >= metadata.total_docs]_vars

(***************************************************************************)
(* The engine with searches: index_batch, flush and search_complex through *)
(* two handles, one of them with custom weights and b values.              *)
(***************************************************************************)
SearchBatches ==
    { <<<<0, K_rua :> T_x>>, <<1, K_rua :> T_x>>>>,
      <<<<2, K_rua :> T_bcdfg>>>>,
      <<<<0, K_cep :> T_x>>, <<1, K_rua :> T_x>>, <<2, K_cep :> T_xy>>>> }

SearchQueries ==
    { (K_rua :> T_xbcdfg),
      (K_cep :> T_xy) @@ (K_rua :> T_x),
      (K_rua :> T_blank) @@ (K_id :> T_x) }

TopKs == {1, 2}

Handles ==
    { PySearchEngine_new,
      set_field_b_values(set_field_weights(PySearchEngine_new, K_rua :> f32(2000)),
                         K_rua :> f32(1000)) }

SearchComplex(handle, query_dict, top_k) ==
    /\ \/ /\ query_fields(query_dict) = <<>>
          /\ last' = [op |-> "search", res |-> "Ok", handle |-> handle,
                      query_dict |-> query_dict, top_k |-> top_k, rfail |-> {},
                      hits |-> <<>>, scored |-> <<>>, candidates |-> {}]
          /\ scorer' = scorer
       \/ /\ query_fields(query_dict) # <<>>
          /\ lock # "ok"
          /\ last' = [op |-> "search", res |-> "panic", handle |-> handle,
                      query_dict |-> query_dict, top_k |-> top_k, rfail |-> {},
                      hits |-> <<>>, scored |-> <<>>, candidates |-> {}]
          /\ scorer' = scorer
       \/ /\ query_fields(query_dict) # <<>>
          /\ lock = "ok"
          /\ scorer' = apply_custom(scorer, handle)
          /\ \E rfail \in ReadFaults(db, query_fields(query_dict)) :
             \E r \in execute(db, metadata, apply_custom(scorer, handle),
                              [fields |-> query_fields(query_dict), top_k |-> top_k],
                              rfail) :
                last' = [op |-> "search", res |-> "Ok", handle |-> handle,
                         query_dict |-> query_dict, top_k |-> top_k, rfail |-> rfail,
                         hits |-> r.hits, scored |-> r.scored,
                         candidates |-> r.candidates]
    /\ UNCHANGED <<lmdbVars, data, metadata, lock, histVars, traceVars>>

\* the engine as PySearchEngine::new opens it; the runs followed are those
\* without storage faults during ingestion
InitSearch == Init /\ batch_size = BATCH_SIZE

NextSearch ==
    \/ \E records \in SearchBatches : IndexBatchRun(records, FALSE) /\ ~faulted'
    \/ Flush /\ ~faulted'
    \/ \E handle \in Handles, query_dict \in SearchQueries, top_k \in TopKs :
          SearchComplex(handle, query_dict, top_k)

SpecSearch == InitSearch /\ [][NextSearch]_vars

(***************************************************************************)
(* Claims about searches                                                   *)
(***************************************************************************)
\* a search that went through execute and returned
Searched == last.op = "search" /\ last.res = "Ok"

\* the scoring list of the last search
LastScoringList == Range(all_query_tokens(query_fields(last.query_dict)))

\* C12: a search whose scoring list contains a (field, token) with a stored
\* posting list returns at least one hit, whether or not a distinctive token
\* of the query matches.
C12_IndexedTokenGivesHits ==
    (/\ Searched
     /\ last.rfail = {}
     /\ \E key \in LastScoringList : get_postings(db, key[1], key[2]).some)
    => last.hits # <<>>

\* C13: a search returns at most top_k hits, no hit is followed by a hit of
\* strictly higher score, and no scored candidate left out of the result has
\* a strictly higher score than a returned hit.
C13_TopKBestInOrder ==
    Searched =>
        /\ Len(last.hits) <= last.top_k
        /\ \A i \in 1..(Len(last.hits) - 1) :
              ~f32_lt(last.hits[i][2], last.hits[i + 1][2])
        /\ \A h \in Range(last.hits) : \A c \in Range(last.scored) \ Range(last.hits) :
              ~f32_lt(h[2], c[2])

\* the field names of the binding, in lower case
KnownFieldNames ==
    {"estado", "municipio", "bairro", "cep", "tipo_logradouro", "rua", "numero",
     "complemento", "nome"}

\* every entry of the query has a blank text or an unknown field name
NothingToSearch(query_dict) ==
    \A n \in DOMAIN query_dict :
        \/ \A i \in DOMAIN query_dict[n] : query_dict[n][i] = " "
        \/ Str(MapChars(ToLower, n)) \notin KnownFieldNames

\* C14: a search whose every field has an empty or whitespace-only text or an
\* unknown field name returns the empty list, whatever the engine holds and
\* whatever top_k is.
C14_BlankQueryReturnsNothing ==
    (last.op = "search" /\ NothingToSearch(last.query_dict))
    => (last.res = "Ok" /\ last.hits = <<>>)

\* such a search was made on an engine that stores the posting list of the
\* text given under the unknown name
C14_Witness ==
    /\ last.op = "search"
    /\ NothingToSearch(last.query_dict)
    /\ last.hits = <<>>
    /\ \E n \in DOMAIN last.query_dict : \E t \in TokenCache[last.query_dict[n]].all :
          get_postings(db, "Rua", t).some

\* C17: a search changes neither the index nor the metadata nor the scorer
\* parameters (k1, field weights, field b values) of the engine.
C17_SearchLeavesEngineUnchanged ==
    [][last'.op = "search" => UNCHANGED <<db, write_buffer, metadata, scorer>>]_vars

\* C18: a search during which a storage read fails ends with an error for the
\* caller, never with a hit list.
C18_FailedReadFailsSearch ==
    (last.op = "search" /\ last.rfail # {}) => last.res = "Err"

(***************************************************************************)
(* Two engines fed the same list of records without storage faults: one by *)
(* an index_dict call per record, the other by index_batch calls over      *)
(* consecutive parts of the list; both are flushed at the end.             *)
(***************************************************************************)
TwinRecordLists == ModelBatches \cup {records \in SearchBatches : Len(records) > 1}

allButTwin == <<lmdbVars, data, metadata, lock, last, histVars, backend, hist,
                txnVars, postingsVars, scorer, threads>>

TwinIndexRecord ==
    /\ twin.done < Len(twin.records)
    /\ LET rec == twin.records[twin.done + 1]
       IN  \E keys \in IterOrders(DOMAIN rec[2]) :
           \E st \in IndexDictFields(twin.per_record, twin.bsize, rec[1], rec[2], keys) :
               twin' = [twin EXCEPT
                          !.done = @ + 1,
                          !.per_record =
                             [db |-> st.db, buf |-> st.buf,
                              md |-> IndexDictFinish(st.md, rec[1], RecordTerms(rec[2]))]]
    /\ UNCHANGED allButTwin

TwinIndexBatch(n) ==
    /\ twin.batched_done + n <= Len(twin.records)
    /\ LET records == SubSeq(twin.records, twin.batched_done + 1, twin.batched_done + n)
           acc == BatchAccumulator(records)
           md0 == [twin.batched.md EXCEPT !.total_docs = @ + Len(records)]
       IN  \E keys \in IterOrders(DOMAIN acc) :
           \E st \in IndexBatchWrite([db |-> twin.batched.db, buf |-> twin.batched.buf,
                                      md |-> md0, res |-> "Ok"],
                                     twin.bsize, acc, keys, <<>>) :
               /\ st.res = "Ok"
               /\ twin' = [twin EXCEPT
                             !.batched_done = @ + n,
                             !.batched = [db |-> st.db, buf |-> st.buf, md |-> st.md]]
    /\ UNCHANGED allButTwin

TwinFlush ==
    /\ ~twin.flushed
    /\ twin.done = Len(twin.records)
    /\ twin.batched_done = Len(twin.records)
    /\ \E a \in LmdbFlushOutcomes(twin.per_record.db, twin.per_record.buf) :
       \E b \in LmdbFlushOutcomes(twin.batched.db, twin.batched.buf) :
           /\ a.res = "Ok"
           /\ b.res = "Ok"
           /\ twin' = [twin EXCEPT
                         !.flushed = TRUE,
                         !.per_record = [@ EXCEPT !.db = a.db, !.buf = a.buf],
                         !.batched = [@ EXCEPT !.db = b.db, !.buf = b.buf]]
    /\ UNCHANGED allButTwin

InitTwin ==
    /\ db = EmptyMap
    /\ write_buffer = <<>>
    /\ batch_size = BATCH_SIZE
    /\ data = EmptyMap
    /\ metadata = FieldMetadata_new
    /\ lock = "ok"
    /\ last = [op |-> "new"]
    /\ ingested = {}
    /\ seen_docs = {}
    /\ calls = {}
    /\ faulted = FALSE
    /\ nops = 0
    /\ backend = "lmdb"
    /\ hist = <<>>
    /\ wtxn = NoWtxn
    /\ rtxn = NoRtxn
    /\ commits = <<>>
    /\ postings_obj = Postings_new
    /\ added = <<>>
    /\ scorer = BM25FScorer_new
    /\ threads = NoThreads
    /\ twin \in {[NoTwin EXCEPT !.records = r, !.bsize = b] :
                    r \in TwinRecordLists, b \in EngineBatchSizes}

NextTwin ==
    \/ TwinIndexRecord
    \/ \E n \in 1..3 : TwinIndexBatch(n)
    \/ TwinFlush

SpecTwin == InitTwin /\ [][NextTwin]_vars

\* the hit lists execute can return on the engine e
HitsOf(e, query_dict, top_k) ==
    {r.hits : r \in execute(e.db, e.md, BM25FScorer_new,
                            [fields |-> query_fields(query_dict), top_k |-> top_k], {})}

\* C11: once both engines have ingested the whole list and are flushed, they
\* hold the same posting lists, term_df, document lengths and total_docs,
\* and return the same results for every query.
C11_PerRecordAndBatchIngestAgree ==
    twin.flushed =>
        /\ twin.per_record.db = twin.batched.db
        /\ twin.per_record.md.term_df = twin.batched.md.term_df
        /\ twin.per_record.md.lengths = twin.batched.md.lengths
        /\ twin.per_record.md.total_docs = twin.batched.md.total_docs
        /\ \A query_dict \in SearchQueries, top_k \in TopKs :
              HitsOf(twin.per_record, query_dict, top_k)
              = HitsOf(twin.batched, query_dict, top_k)

(***************************************************************************)
(* The engine lock (src/src/python.rs): every method that reaches the      *)
(* engine first takes one side of GLOBAL_ENGINE's RwLock and keeps the     *)
(* guard until it returns.  A thread is idle, waiting for the lock or      *)
(* inside the engine.                                                      *)
(***************************************************************************)
LockOps == {"index_batch", "index_dict", "flush", "search_complex",
            "get_total_docs", "get_stats", "load_metadata"}

IndexingOps == {"index_batch", "index_dict", "flush", "load_metadata"}

ReaderOps == {"search_complex", "get_total_docs", "get_stats"}

\* flush taking the shared side
LockMode_flush_shared(op) ==
    IF op \in {"get_total_docs", "get_stats", "flush"} THEN "read" ELSE "write"

\* the side of the lock a method takes: .read() in get_total_docs and
\* get_stats, .write() in index_batch, index_dict, flush, search_complex and
\* load_metadata
LockMode(op) ==
    IF op \in {"get_total_docs", "get_stats"} THEN "read" ELSE "write"

Inside(t) == threads[t].pc = "inside"

\* RwLock: the exclusive side is granted when no guard is held, the shared
\* side when no exclusive guard is held
CanAcquire(t) ==
    IF LockMode(threads[t].op) = "write"
    THEN \A u \in Threads \ {t} : ~Inside(u)
    ELSE \A u \in Threads \ {t} : Inside(u) => LockMode(threads[u].op) = "read"

allButThreads == <<db, write_buffer, batch_size, data, metadata, lock, last,
                   ingested, seen_docs, calls, faulted, nops, backend, hist,
                   txnVars, postingsVars, scorer, twin>>

\* a thread calls a method, which asks for the lock
Call(t, op) ==
    /\ threads[t].pc = "idle"
    /\ threads' = [threads EXCEPT ![t] = [pc |-> "waiting", op |-> op]]
    /\ UNCHANGED allButThreads

\* the lock is granted
Acquire(t) ==
    /\ threads[t].pc = "waiting"
    /\ CanAcquire(t)
    /\ threads' = [threads EXCEPT ![t].pc = "inside"]
    /\ UNCHANGED allButThreads

\* the method returns and its guard is dropped
Release(t) ==
    /\ Inside(t)
    /\ threads' = [threads EXCEPT ![t] = [pc |-> "idle", op |-> "none"]]
    /\ UNCHANGED allButThreads

InitLock == Init /\ batch_size = BATCH_SIZE

NextLock ==
    \/ \E t \in Threads, op \in LockOps : Call(t, op)
    \/ \E t \in Threads : Acquire(t)
    \/ \E t \in Threads : Release(t)

SpecLock == InitLock /\ [][NextLock]_vars

\* C15: a search or stats call that waits for the lock while only searches
\* are inside the engine is granted the lock, so searches run side by side
\* and never block a search or a stats call.
C15_SearchNeverBlocksReaders ==
    \A t \in Threads :
        (/\ threads[t].pc = "waiting"
         /\ threads[t].op \in ReaderOps
         /\ \A u \in Threads \ {t} : Inside(u) => threads[u].op = "search_complex")
        => CanAcquire(t)

\* C16: while a thread is inside index_dict, index_batch, flush or
\* load_metadata, no other thread is inside search_complex, get_total_docs
\* or get_stats.
C16_IndexingExcludesReaders ==
    \A t \in Threads, u \in Threads :
        (Inside(t) /\ threads[t].op \in IndexingOps /\ u # t)
        => ~(Inside(u) /\ threads[u].op \in ReaderOps)

\* a reader waits for the lock while an indexing method is inside the engine
C16_Witness ==
    \E t \in Threads, u \in Threads :
        /\ Inside(t) /\ threads[t].op \in IndexingOps
        /\ threads[u].pc = "waiting" /\ threads[u].op \in ReaderOps

(***************************************************************************)
(* Failures of the storage under index_batch, in Spec                      *)
(***************************************************************************)
\* the doc ids of the posting list committed for key in dbv
DocsIn(dbv, key) ==
    IF LmdbGet(dbv, key[1], key[2]).some
    THEN LmdbGet(dbv, key[1], key[2]).val.bitmap ELSE {}

\* C19: after index_batch, index_dict or flush has failed, the engine lock
\* can still be acquired, so later calls complete normally.
C19_EngineUsableAfterFailure ==
    (last.op \in {"index_batch", "index_dict", "flush"} /\ last.res # "Ok")
        => lock = "ok"

\* C20: an index_batch call never leaves a key of the batch with a stored
\* posting list that omits a document stored for it before the call: a read
\* that fails is not taken for an absent key.
C20_BatchKeepsStoredDocs ==
    [][last'.op = "index_batch" =>
          \A key \in DOMAIN last'.acc : DocsIn(db, key) \subseteq DocsIn(db', key)]_vars

(***************************************************************************)
(* The tokenizer applied to texts (src/src/tokenizer.rs): a text is built  *)
(* word by word and tokenize_structured is applied to it after each word.  *)
(***************************************************************************)
MaxWords == 3

TokenizerWords ==
    {<<"P", "A">>,
     <<"P", "a", "r", "á">>,
     <<"R", "u", "a">>,
     <<"B", "R">>,
     <<"3">>,
     <<"3", "1", "6">>,
     <<"d", "e">>,
     <<"C", "o", "m", "e", "r", "c", "i", "o">>}

Separators == {<<" ">>, <<"-">>}

\* the recognized state codes, as texts
StateCodeTexts == {<<"P", "A">>, <<"M", "A">>, <<"P", "I">>, <<"A", "L">>, <<"R", "S">>, <<"G", "O">>}

allButLast == <<db, write_buffer, batch_size, data, metadata, lock,
                ingested, seen_docs, calls, faulted, nops, backend, hist,
                txnVars, postingsVars, scorer, threads, twin>>

\* tokenize_structured(text) with its token list
Tokenized(words, text, tokens) ==
    [op |-> "tokenize_structured", words |-> words, text |-> text, tokens |-> tokens,
     distinctive |-> TokenSetOf(tokens).distinctive, all |-> TokenSetOf(tokens).all]

TokenizeText(words, text) == Tokenized(words, text, tokens_list(text))

\* the text gets one more word and is tokenized
Tokenize(word, sep) ==
    /\ last.op \in {"new", "tokenize_structured"}
    /\ last' = IF last.op = "new" THEN TokenizeText(<<word>>, word)
               ELSE TokenizeText(Append(last.words, word), last.text \o sep \o word)
    /\ last.op = "tokenize_structured" => Len(last.words) < MaxWords
    /\ UNCHANGED allButLast

InitTokenizer == Init /\ batch_size = BATCH_SIZE

NextTokenizer == \E word \in TokenizerWords, sep \in Separators : Tokenize(word, sep)

SpecTokenizer == InitTokenizer /\ [][NextTokenizer]_vars

IsStateCode(word) ==
    \E u \in StateCodeTexts : MapChars(ToLower, word) = MapChars(ToLower, u)

IsStopWord(t) == Str(t) \in STOP_WORDS_SET \cup NLTK_STOPS

\* C21: every word of the text that is a state code, in any letter case, is
\* in the distinctive set in its normalized form.
C21_StateCodeIsDistinctive ==
    last.op = "tokenize_structured" =>
        \A i \in DOMAIN last.words :
            IsStateCode(last.words[i]) => normalized(last.words[i]) \in last.distinctive

\* C22: no term of the distinctive set or of the all set is empty or a stop
\* word of the domain list or of the language list.
C22_NoEmptyOrStopWordTerm ==
    last.op = "tokenize_structured" =>
        \A t \in last.distinctive \cup last.all : t # <<>> /\ ~IsStopWord(t)

AllDigits(t) == Len(t) >= 1 /\ \A i \in 1..Len(t) : IsDigit(t[i])

\* (a, n) is an address-type word before a number, or a highway prefix
\* before a number of 1 to 3 digits
NGramPair(a, n) ==
    \/ Str(a) \in ADDRESS_TYPE /\ AllDigits(n)
    \/ Str(a) \in HIGHWAY_PREFIX /\ AllDigits(n) /\ Len(n) <= 3

\* C23: for adjacent kept tokens a, n forming such a pair, "a n" is in the
\* distinctive set and in the all set, and a and n are in the all set.
C23_NGramOfAdjacentTokens ==
    last.op = "tokenize_structured" =>
        \A i \in 1..(Len(last.tokens) - 1) :
            NGramPair(last.tokens[i], last.tokens[i + 1]) =>
                /\ last.tokens[i] \o <<" ">> \o last.tokens[i + 1]
                      \in last.distinctive \cap last.all
                /\ last.tokens[i] \in last.all
                /\ last.tokens[i + 1] \in last.all

\* an address-type word, a highway prefix and a number of three digits: the
\* n-gram of the last two is distinctive
C23_Witness ==
    /\ last.op = "tokenize_structured"
    /\ \E i \in 2..(Len(last.tokens) - 1) :
          /\ Str(last.tokens[i - 1]) \in ADDRESS_TYPE
          /\ Str(last.tokens[i]) \in HIGHWAY_PREFIX
          /\ Len(last.tokens[i + 1]) = 3
          /\ NGramPair(last.tokens[i], last.tokens[i + 1])
          /\ last.tokens[i] \o <<" ">> \o last.tokens[i + 1] \in last.distinctive

(***************************************************************************)
(* The write buffer of the on-disk backend, in SpecStorage                 *)
(***************************************************************************)
\* the last call made on the storage
LastCall == hist[Len(hist)]

\* every entry of the buffer content pending is committed: its key holds the
\* value of one of pending's entries for that key
Committed(pending) ==
    \A i \in DOMAIN pending :
        /\ pending[i][1] \in DOMAIN db
        /\ \E j \in DOMAIN pending :
              pending[j][1] = pending[i][1] /\ db[pending[i][1]] = pending[j][2]

\* C24: after a put that returns Ok on the on-disk backend the buffer holds
\* fewer than batch_size entries; when the put made the buffer reach
\* batch_size, the buffer is empty and all its entries are committed.
C24_PutKeepsBufferBelowBatchSize ==
    (backend = "lmdb" /\ hist # <<>> /\ LastCall.op = "put" /\ LastCall.res = "Ok")
        => /\ Len(write_buffer) < batch_size
           /\ Len(LastCall.pending) >= batch_size
                 => write_buffer = <<>> /\ Committed(LastCall.pending)

\* a put that returns Ok after an earlier flush that could not start left
\* batch_size entries in the buffer
C24_Witness ==
    /\ backend = "lmdb" /\ hist # <<>>
    /\ LastCall.op = "put" /\ LastCall.res = "Ok"
    /\ Len(LastCall.pending) > batch_size
    /\ write_buffer = <<>>

\* C29: after a flush that fails, the write buffer still holds every entry
\* it held before the flush, none of them lost.
C29_FailedFlushKeepsBuffer ==
    (backend = "lmdb" /\ hist # <<>> /\ LastCall.op = "flush" /\ LastCall.res # "Ok")
        => \A i \in DOMAIN LastCall.pending :
              \E j \in DOMAIN write_buffer : write_buffer[j] = LastCall.pending[i]

(***************************************************************************)
(* Candidate selection: searches over an index in which one record holds   *)
(* a distinctive token ("123") and six tokens have a term_df.              *)
(***************************************************************************)
CandidateBatches ==
    { <<<<0, K_rua :> T_x>>, <<1, K_rua :> T_123x>>>>,
      <<<<2, K_rua :> T_bcdfg>>>> }

CandidateQueries == {K_rua :> T_123x, K_rua :> T_xbcdfg}

NextCandidates ==
    \/ \E records \in CandidateBatches : IndexBatchRun(records, FALSE) /\ ~faulted'
    \/ Flush /\ ~faulted'
    \/ \E query_dict \in CandidateQueries, top_k \in TopKs :
          SearchComplex(PySearchEngine_new, query_dict, top_k)

SpecCandidates == InitSearch /\ [][NextCandidates]_vars

\* the scoring list of the last search, in order
LastQueryTokens == all_query_tokens(query_fields(last.query_dict))

\* the round-1 candidates of the last search
LastRound1 == round1_candidates(db, query_fields(last.query_dict), last.rfail)

\* the entry a of the scoring list is at least as rare as the entry b: an
\* entry without a term_df comes after every entry that has one
AsRareAs(a, b) ==
    \/ b \notin DOMAIN metadata.term_df
    \/ a \in DOMAIN metadata.term_df /\ metadata.term_df[a] <= metadata.term_df[b]

\* the positions of min(5, len) entries of the scoring list of least term_df
RarestOfScoringList ==
    {S \in SUBSET DOMAIN LastQueryTokens :
        /\ Cardinality(S) = (IF Len(LastQueryTokens) < 5 THEN Len(LastQueryTokens) ELSE 5)
        /\ \A i \in S, j \in DOMAIN LastQueryTokens \ S :
              AsRareAs(LastQueryTokens[i], LastQueryTokens[j])}

\* the union of the stored posting bitmaps of the entries at the positions S
StoredUnion(S) ==
    UNION {get_postings(db, LastQueryTokens[i][1], LastQueryTokens[i][2]).val.bitmap :
             i \in {j \in S : get_postings(db, LastQueryTokens[j][1],
                                           LastQueryTokens[j][2]).some}}

C26_HitsAreCandidates ==
    Searched =>
        /\ (last.rfail = {} /\ last.candidates # {}) =>
              last.candidates \in (IF LastRound1 # {} THEN {LastRound1}
                                   ELSE {StoredUnion(S) : S \in RarestOfScoringList})
        /\ \A h \in Range(last.hits) :
              /\ as_u32(h[1]) \in last.candidates
              /\ as_usize(as_u32(h[1])) = h[1]
              /\ \E key \in LastScoringList :
                    /\ get_postings(db, key[1], key[2]).some
                    /\ as_u32(h[1]) \in get_postings(db, key[1], key[2]).val.bitmap

\* a search whose round 1 found candidates returned a hit and left out a
\* document of the posting list of a scoring-list entry
C26_Witness ==
    /\ Searched /\ last.hits # <<>> /\ LastRound1 # {}
    /\ \E key \in LastScoringList :
          /\ get_postings(db, key[1], key[2]).some
          /\ ~(get_postings(db, key[1], key[2]).val.bitmap \subseteq last.candidates)

(***************************************************************************)
(* Metadata used by the scorer: records indexed one by one and in batches, *)
(* one of them with a text without tokens, and searches.                   *)
(***************************************************************************)
ScoringRecords == {K_rua :> T_blank, K_rua :> T_x}

ScoringBatches == {<<<<1, K_rua :> T_x>>>>}

NextScoring ==
    \/ \E doc_id \in ModelDocIds, record_dict \in ScoringRecords :
          IndexDict(doc_id, record_dict)
    \/ \E records \in ScoringBatches : IndexBatchRun(records, FALSE) /\ ~faulted'
    \/ Flush /\ ~faulted'
    \/ \E top_k \in TopKs : SearchComplex(PySearchEngine_new, K_rua :> T_x, top_k)

SpecScoring == InitSearch /\ [][NextScoring]_vars

\* score_taat_cached, line 110: the average length of field f used in scoring
AvgLenUsed(md, f) == GetOr(calculate_avg_lengths(md), f, f32(1000))

\* C27: the average length of a field used in scoring is 1.0 when total_docs
\* is 0 or the field's total length is 0, and no score of a search is the
\* result of a division by zero (an infinity or NaN).
C27_AvgLenDefaultsToOne ==
    /\ \A f \in RecordField :
          (metadata.total_docs = 0 \/ GetOr(metadata.total_field_lengths, f, 0) = 0)
              => AvgLenUsed(metadata, f) = f32(1000)
    /\ Searched => \A h \in Range(last.scored) : h[2].k = "num"

\* C28: term_df of every key is at most total_docs, so that no IDF is
\* negative.
C28_TermDfAtMostTotalDocs ==
    \A key \in DOMAIN metadata.term_df :
        /\ metadata.term_df[key] <= metadata.total_docs
        /\ ~f32_lt(calculate_idf(key[2], key[1], metadata), f32(0))

(***************************************************************************)
(* Doc ids wider than 32 bits, in SpecPostings                             *)
(***************************************************************************)
\* C30: after add_doc(d1) alone, len() is 1 and contains(d2) is false for
\* every doc id d2 other than d1, also when d2 equals d1 modulo 2^32.
C30_DistinctDocIdsStayDistinct ==
    Len(added) = 1 =>
        /\ len(postings_obj) = 1
        /\ \A d2 \in PostingDocIds \ {added[1]} : ~contains(postings_obj, d2)

====
